---- MODULE Spec2Model ----
(***************************************************************************)
(* NeuralNetworkMNISTBackProp: a feed-forward classifier with explicit     *)
(* backpropagation and mini-batch stochastic gradient descent.             *)
(*                                                                         *)
(* Numbers.  A Python float is held as an integer number of 1/Unit         *)
(* (fixed point); a product or quotient is rounded down to that grid.      *)
(*                                                                         *)
(* Arrays.  An ndarray is [shape, data].  shape is numpy's shape tuple     *)
(* with its real numbers (784, 10, ...).  Every array the model draws is   *)
(* constant along an axis of length InputSize, and the operations below    *)
(* keep it so (the only arrays with such an axis are the images, the       *)
(* first weight matrix and its gradient, whose entry [i,j] is              *)
(* delta[i]*x[j]); data therefore holds ONE entry along such an axis, and  *)
(* a sum over it counts that entry InputSize times.  Every other axis is   *)
(* held entry by entry.                                                    *)
(***************************************************************************)
EXTENDS Integers, Sequences, FiniteSets, TLC

\* ------------------------------------------------------------------ bounds

MaxTrain == 3        \* most examples of a well-shaped training set
MaxEpochs == 2       \* largest epochs argument
MaxBatch == 3        \* largest batchsz argument
MaxWork == 6         \* largest epochs * len(training_data) of one SGD call
MaxThreads == 2      \* backpropagate calls running at once

\* ------------------------------------------------------- program constants

InputSize == 784
OutputSize == 10

\* --------------------------------------------------------------- numbers

Unit == 2^10

Mul(a, b) == (a * b) \div Unit

Div(a, b) == (a * Unit) \div b

RECURSIVE SumSeq(_)
SumSeq(s) == IF s = <<>> THEN 0 ELSE Head(s) + SumSeq(Tail(s))

\* --------------------------------------------------------------- Python

\* seq[k] of a Python list held as a TLA+ sequence: k >= 0 counts from the
\* front, k < 0 from the back.
PyIndexOk(s, k) == IF k >= 0 THEN k < Len(s) ELSE -k <= Len(s)

PyIndex(s, k) == IF k >= 0 THEN s[k + 1] ELSE s[Len(s) + k + 1]

\* The place (from 1) in the list s that the Python index k names.
PyPos(s, k) == IF k >= 0 THEN k + 1 ELSE Len(s) + k + 1

\* seq[lo:hi] for 0 <= lo: the slice is cut at the end of the list.
PySlice(s, lo, hi) ==
    LET h == IF hi > Len(s) THEN Len(s) ELSE hi
    IN  IF lo >= h THEN <<>> ELSE SubSeq(s, lo + 1, h)

\* range(lo, hi + 1, step): a range that also reaches hi itself.
PyRange_Inclusive(lo, hi, step) ==
    IF hi < lo THEN <<>>
    ELSE [i \in 1..(((hi - lo) \div step) + 1) |-> lo + (i - 1) * step] \o <<>>

\* range(lo, hi, step) cut to the whole steps that fit below hi.
PyRange_WholeSteps(lo, hi, step) ==
    IF hi - lo < step THEN <<>>
    ELSE [i \in 1..((hi - lo) \div step) |-> lo + (i - 1) * step] \o <<>>

\* range(lo, hi, step) for step >= 1.
PyRange(lo, hi, step) ==
    IF hi <= lo THEN <<>>
    ELSE [i \in 1..(((hi - lo - 1) \div step) + 1) |-> lo + (i - 1) * step] \o <<>>

\* zip(a, b) stops with the shorter list.
PyZipLen(a, b) == IF Len(a) < Len(b) THEN Len(a) ELSE Len(b)

\* fmt % args: args is the tuple on the right of % (a value that is not a
\* tuple counts as a tuple of one); nspecs is the number of conversions in
\* fmt.  Anything but an exact match raises TypeError.
PyFormatOk(nspecs, args) == Len(args) = nspecs

\* --------------------------------------------------------------- ndarray

\* Entries held along an axis of length n, and what each of them counts
\* for in a sum over that axis.
Stored(n) == IF n = InputSize THEN 1 ELSE n

Weight(n) == IF n = InputSize THEN InputSize ELSE 1

\* A list given by its entries 1..n.
List1(n, e(_)) == [i \in 1..n |-> e(i)] \o <<>>

\* The 2-d array of a shape with entry e(i, j), the 1-d array with entry e(i).
Array(shape, e(_, _)) ==
    [shape |-> shape,
     data  |-> List1(Stored(shape[1]),
                 LAMBDA i : List1(Stored(shape[2]), LAMBDA j : e(i, j)))]

Array1(shape, e(_)) ==
    [shape |-> shape, data |-> List1(Stored(shape[1]), e)]

\* np.full(shape, v) for a 1-d or 2-d shape.
full(shape, v) ==
    IF Len(shape) = 1 THEN Array1(shape, LAMBDA i : v)
    ELSE Array(shape, LAMBDA i, j : v)

zeros(shape) == full(shape, 0)

\* a.T of a 2-d array.
T(a) == Array(<<a.shape[2], a.shape[1]>>, LAMBDA i, j : a.data[j][i])

\* np.dot(a, b) of 2-d arrays with a.shape[1] = b.shape[0].
dot(a, b) ==
    LET n == a.shape[2]
    IN  Array(<<a.shape[1], b.shape[2]>>,
              LAMBDA i, j :
                 Weight(n) * SumSeq(List1(Stored(n),
                     LAMBDA m : Mul(a.data[i][m], b.data[m][j]))))

Max(a, b) == IF a > b THEN a ELSE b

\* numpy broadcasting of two 2-d shapes: an axis of length 1 stretches.
BroadcastShape(s, t) == <<Max(s[1], t[1]), Max(s[2], t[2])>>

At(a, i, j) ==
    a.data[IF a.shape[1] = 1 THEN 1 ELSE i][IF a.shape[2] = 1 THEN 1 ELSE j]

\* a + b, a - b, a * b (element by element, broadcast).
Add(a, b) ==
    Array(BroadcastShape(a.shape, b.shape),
          LAMBDA i, j : At(a, i, j) + At(b, i, j))

Sub(a, b) ==
    Array(BroadcastShape(a.shape, b.shape),
          LAMBDA i, j : At(a, i, j) - At(b, i, j))

Times(a, b) ==
    Array(BroadcastShape(a.shape, b.shape),
          LAMBDA i, j : Mul(At(a, i, j), At(b, i, j)))

\* c * a for a Python float c.
Scale(c, a) == Array(a.shape, LAMBDA i, j : Mul(c, a.data[i][j]))

\* f applied to every entry.
Map(f(_), a) == Array(a.shape, LAMBDA i, j : f(a.data[i][j]))

\* Python list item assignment s[k] = v (k may be negative).
PySet(s, k, v) == [s EXCEPT ![IF k >= 0 THEN k + 1 ELSE Len(s) + k + 1] = v]

\* --------------------------------------------------- activation functions

\* float64: 1.0 + np.exp(-z) is exactly 1.0 from z = 37 on, so that the
\* quotient is exactly 1.0.
OneAbsorbs == 37

\* float64: np.exp(-z) is inf from -z = 710 on, so that the quotient is
\* exactly 0.0.
ExpOverflow == 710

\* 1.0 / (1.0 + np.exp(-z)) of one entry.  Between the two float64
\* saturation points the logistic curve is strictly inside (0, 1) and
\* increasing; it is held as the line through (0, 1/2) of slope 1/4, cut
\* to the grid points strictly between 0 and 1.
sigmoid1(z) ==
    IF z >= OneAbsorbs * Unit THEN Unit
    ELSE IF z <= -(ExpOverflow * Unit) THEN 0
    ELSE LET s == (Unit \div 2) + (z \div 4)
         IN  IF s < 1 THEN 1 ELSE IF s > Unit - 1 THEN Unit - 1 ELSE s

sigmoid(z) == Map(sigmoid1, z)

D_sigmoid1(z) == Mul(sigmoid1(z), Unit - sigmoid1(z))

D_sigmoid(z) == Map(D_sigmoid1, z)

D_cost(output, target) == Sub(output, target)

\* ------------------------------------------------------------ the network

NoNetwork == [nlayers |-> 0, layersz |-> <<>>, biases |-> <<>>, weights |-> <<>>]

\* One entry of the k-th array drawn from np.random after np.random.seed(seed).
randnEntry(seed, k, i, j) ==
    (((seed * 7 + k * 3 + i * 2 + j * 4) % 5) - 2) * (Unit \div 32)

\* np.random.randn(r, c), the k-th draw of the generator.
randn(r, c, seed, k) ==
    Array(<<r, c>>, LAMBDA i, j : randnEntry(seed, k, i, j))

\* The network built from any non-empty list: arrays as in NewNetwork below.
BuildNetwork(layersz, seed) ==
    LET tl == PySlice(layersz, 1, Len(layersz))
        hd == PySlice(layersz, 0, Len(layersz) - 1)
    IN  [err |-> "none",
         net |-> [nlayers |-> Len(layersz),
                  layersz |-> layersz,
                  biases  |-> List1(Len(tl), LAMBDA i : randn(tl[i], 1, seed, i)),
                  weights |-> List1(PyZipLen(tl, hd),
                                 LAMBDA i : randn(tl[i], hd[i], seed, Len(tl) + i))]]

\* The constructor without the check of the input layer.
NewNetwork_NoInputCheck(layersz, seed) ==
    IF ~PyIndexOk(layersz, 0)
    THEN [err |-> "IndexError", net |-> NoNetwork]
    ELSE IF PyIndex(layersz, -1) # OutputSize
    THEN [err |-> "RuntimeError", net |-> NoNetwork]
    ELSE IF \E i \in 1..Len(layersz) : layersz[i] < 0
    THEN [err |-> "ValueError", net |-> NoNetwork]
    ELSE BuildNetwork(layersz, seed)

\* The constructor without the check of the output layer.
NewNetwork_NoOutputCheck(layersz, seed) ==
    IF ~PyIndexOk(layersz, 0)
    THEN [err |-> "IndexError", net |-> NoNetwork]
    ELSE IF PyIndex(layersz, 0) # InputSize
    THEN [err |-> "RuntimeError", net |-> NoNetwork]
    ELSE IF \E i \in 1..Len(layersz) : layersz[i] < 0
    THEN [err |-> "ValueError", net |-> NoNetwork]
    ELSE BuildNetwork(layersz, seed)

\* NeuralNetworkMNISTBackProp(layersz), after np.random.seed(seed).
NewNetwork(layersz, seed) ==
    IF ~PyIndexOk(layersz, 0)
    THEN [err |-> "IndexError", net |-> NoNetwork]
    ELSE IF PyIndex(layersz, 0) # InputSize
    THEN [err |-> "RuntimeError", net |-> NoNetwork]
    ELSE IF PyIndex(layersz, -1) # OutputSize
    THEN [err |-> "RuntimeError", net |-> NoNetwork]
    ELSE IF \E i \in 1..Len(layersz) : layersz[i] < 0
    THEN [err |-> "ValueError", net |-> NoNetwork]
    ELSE LET tl == PySlice(layersz, 1, Len(layersz))
             hd == PySlice(layersz, 0, Len(layersz) - 1)
         IN  [err |-> "none",
              net |-> [nlayers |-> Len(layersz),
                       layersz |-> layersz,
                       biases  |-> List1(Len(tl),
                                      LAMBDA i : randn(tl[i], 1, seed, i)),
                       weights |-> List1(PyZipLen(tl, hd),
                                      LAMBDA i : randn(tl[i], hd[i], seed,
                                                       Len(tl) + i))]]

\* The loop of feedforward leaving the last layer without its sigmoid.
RECURSIVE FeedLoop_LinearOutput(_, _, _)
FeedLoop_LinearOutput(n, a, i) ==
    IF i > PyZipLen(n.biases, n.weights) THEN a
    ELSE IF i = PyZipLen(n.biases, n.weights)
    THEN Add(dot(n.weights[i], a), n.biases[i])
    ELSE FeedLoop_LinearOutput(n, sigmoid(Add(dot(n.weights[i], a), n.biases[i])),
                               i + 1)

\* The loop of feedforward from the i-th (bias, weight) pair on.
RECURSIVE FeedLoop(_, _, _)
FeedLoop(n, a, i) ==
    IF i > PyZipLen(n.biases, n.weights) THEN a
    ELSE FeedLoop(n, sigmoid(Add(dot(n.weights[i], a), n.biases[i])), i + 1)

\* feedforward checking only that its input is a column.
feedforward_ColumnOnly(n, a) ==
    IF PyIndex(a.shape, -1) # 1
    THEN [err |-> "RuntimeError", value |-> <<>>, steps |-> 0]
    ELSE [err |-> "none", value |-> FeedLoop(n, a, 1),
          steps |-> PyZipLen(n.biases, n.weights)]

\* self.feedforward(a): err, the value returned, and the number of layer
\* transitions computed.
feedforward(n, a) ==
    IF a.shape # <<PyIndex(n.layersz, 0), 1>>
    THEN [err |-> "RuntimeError", value |-> <<>>, steps |-> 0]
    ELSE [err |-> "none", value |-> FeedLoop(n, a, 1),
          steps |-> PyZipLen(n.biases, n.weights)]

\* The forward pass of backpropagate from the i-th (weight, bias) pair on:
\* c holds activation, activations and zs.
RECURSIVE ForwardPass(_, _, _)
ForwardPass(n, c, i) ==
    IF i > PyZipLen(n.weights, n.biases) THEN c
    ELSE LET z == Add(dot(n.weights[i], c.activation), n.biases[i])
             a == sigmoid(z)
         IN  ForwardPass(n, [activation  |-> a,
                             activations |-> Append(c.activations, a),
                             zs          |-> Append(c.zs, z)], i + 1)

\* The backward loop over range(2, self.nlayers - 1): one step short.
RECURSIVE BackwardPass_StopsEarly(_, _, _, _)
BackwardPass_StopsEarly(n, c, g, L) ==
    IF L >= n.nlayers - 1 THEN g
    ELSE LET delta == Times(dot(T(PyIndex(n.weights, -L + 1)), g.delta),
                            D_sigmoid(PyIndex(c.zs, -L)))
         IN  BackwardPass_StopsEarly(n, c,
                 [delta      |-> delta,
                  dC_dBias   |-> PySet(g.dC_dBias, -L, delta),
                  dC_dWeight |-> PySet(g.dC_dWeight, -L,
                                   dot(delta, T(PyIndex(c.activations, -L - 1)))),
                  used       |-> Append(g.used,
                                   [L |-> L, dC_dBias |-> -L, dC_dWeight |-> -L,
                                    weights |-> -L + 1, zs |-> -L,
                                    activations |-> -L - 1])],
                 L + 1)

\* The backward loop taking activations[-L], the output of the transition,
\* where the code takes its input activations[-L-1].
RECURSIVE BackwardPass_OwnActivation(_, _, _, _)
BackwardPass_OwnActivation(n, c, g, L) ==
    IF L >= n.nlayers THEN g
    ELSE LET delta == Times(dot(T(PyIndex(n.weights, -L + 1)), g.delta),
                            D_sigmoid(PyIndex(c.zs, -L)))
         IN  BackwardPass_OwnActivation(n, c,
                 [delta      |-> delta,
                  dC_dBias   |-> PySet(g.dC_dBias, -L, delta),
                  dC_dWeight |-> PySet(g.dC_dWeight, -L,
                                   dot(delta, T(PyIndex(c.activations, -L)))),
                  used       |-> Append(g.used,
                                   [L |-> L, dC_dBias |-> -L, dC_dWeight |-> -L,
                                    weights |-> -L + 1, zs |-> -L,
                                    activations |-> -L])],
                 L + 1)

\* The loop "for L in range(2, self.nlayers)" of backpropagate from L on:
\* g holds delta, dC_dBias and dC_dWeight, and (history) the Python indices
\* each step has used: the entries of dC_dBias and dC_dWeight it assigned
\* and the entries of self.weights, zs and activations it read.  The first
\* entry of used is the output step, which reads no weight matrix (its
\* weights field is not an index).
RECURSIVE BackwardPass(_, _, _, _)
BackwardPass(n, c, g, L) ==
    IF L >= n.nlayers THEN g
    ELSE LET delta == Times(dot(T(PyIndex(n.weights, -L + 1)), g.delta),
                            D_sigmoid(PyIndex(c.zs, -L)))
         IN  BackwardPass(n, c,
                 [delta      |-> delta,
                  dC_dBias   |-> PySet(g.dC_dBias, -L, delta),
                  dC_dWeight |-> PySet(g.dC_dWeight, -L,
                                   dot(delta, T(PyIndex(c.activations, -L - 1)))),
                  used       |-> Append(g.used,
                                   [L |-> L, dC_dBias |-> -L, dC_dWeight |-> -L,
                                    weights |-> -L + 1, zs |-> -L,
                                    activations |-> -L - 1])],
                 L + 1)

\* backpropagate starting the pre-activation cache from the input, as the
\* activation cache is (zs = [x]).
backpropagate_ZsFromInput(n, x, y) ==
    IF x.shape # <<PyIndex(n.layersz, 0), 1>>
    THEN [err |-> "RuntimeError", dC_dBias |-> <<>>, dC_dWeight |-> <<>>,
          activations |-> <<>>, zs |-> <<>>, used |-> <<>>]
    ELSE IF y.shape # <<PyIndex(n.layersz, -1), 1>>
    THEN [err |-> "RuntimeError", dC_dBias |-> <<>>, dC_dWeight |-> <<>>,
          activations |-> <<>>, zs |-> <<>>, used |-> <<>>]
    ELSE LET b0 == List1(Len(n.biases), LAMBDA i : zeros(n.biases[i].shape))
             w0 == List1(Len(n.weights), LAMBDA i : zeros(n.weights[i].shape))
             c  == ForwardPass(n, [activation |-> x, activations |-> <<x>>,
                                   zs |-> <<x>>], 1)
             delta == Times(D_cost(PyIndex(c.activations, -1), y),
                            D_sigmoid(PyIndex(c.zs, -1)))
             g0 == [delta      |-> delta,
                    dC_dBias   |-> PySet(b0, -1, delta),
                    dC_dWeight |-> PySet(w0, -1,
                                     dot(delta, T(PyIndex(c.activations, -2)))),
                    used       |-> <<[L |-> 1, dC_dBias |-> -1, dC_dWeight |-> -1,
                                      weights |-> 0, zs |-> -1,
                                      activations |-> -2]>>]
             g  == BackwardPass(n, c, g0, 2)
         IN  [err |-> "none", dC_dBias |-> g.dC_dBias,
              dC_dWeight |-> g.dC_dWeight,
              activations |-> c.activations, zs |-> c.zs, used |-> g.used]

\* self.backpropagate(x, y): err, the two gradient lists returned, the
\* caches of the forward pass and the indices used by the backward pass.
backpropagate(n, x, y) ==
    IF x.shape # <<PyIndex(n.layersz, 0), 1>>
    THEN [err |-> "RuntimeError", dC_dBias |-> <<>>, dC_dWeight |-> <<>>,
          activations |-> <<>>, zs |-> <<>>, used |-> <<>>]
    ELSE IF y.shape # <<PyIndex(n.layersz, -1), 1>>
    THEN [err |-> "RuntimeError", dC_dBias |-> <<>>, dC_dWeight |-> <<>>,
          activations |-> <<>>, zs |-> <<>>, used |-> <<>>]
    ELSE LET b0 == List1(Len(n.biases), LAMBDA i : zeros(n.biases[i].shape))
             w0 == List1(Len(n.weights), LAMBDA i : zeros(n.weights[i].shape))
             c  == ForwardPass(n, [activation |-> x, activations |-> <<x>>,
                                   zs |-> <<>>], 1)
             delta == Times(D_cost(PyIndex(c.activations, -1), y),
                            D_sigmoid(PyIndex(c.zs, -1)))
             g0 == [delta      |-> delta,
                    dC_dBias   |-> PySet(b0, -1, delta),
                    dC_dWeight |-> PySet(w0, -1,
                                     dot(delta, T(PyIndex(c.activations, -2)))),
                    used       |-> <<[L |-> 1, dC_dBias |-> -1, dC_dWeight |-> -1,
                                      weights |-> 0, zs |-> -1,
                                      activations |-> -2]>>]
             g  == BackwardPass(n, c, g0, 2)
         IN  [err |-> "none", dC_dBias |-> g.dC_dBias,
              dC_dWeight |-> g.dC_dWeight,
              activations |-> c.activations, zs |-> c.zs, used |-> g.used]

\* np.argmax of a column vector: the first index (from 0) of its maximum.
argmax(a) ==
    CHOOSE i \in 0..(a.shape[1] - 1) :
        /\ \A k \in 0..(a.shape[1] - 1) : a.data[k + 1][1] <= a.data[i + 1][1]
        /\ \A k \in 0..(i - 1) : a.data[k + 1][1] < a.data[i + 1][1]

\* self.evaluate(test_data) from the i-th example on: err and the count.
RECURSIVE EvalLoop(_, _, _)
EvalLoop(n, td, i) ==
    IF i > Len(td) THEN [err |-> "none", value |-> 0]
    ELSE LET r == feedforward(n, td[i].x)
         IN  IF r.err # "none" THEN [err |-> r.err, value |-> 0]
             ELSE LET rest == EvalLoop(n, td, i + 1)
                  IN  IF rest.err # "none" THEN rest
                      ELSE [err |-> "none",
                            value |-> rest.value +
                               (IF argmax(r.value) = td[i].y THEN 1 ELSE 0)]

\* evaluate leaving out the first example.
evaluate_SkipsFirst(n, td) == EvalLoop(n, td, 2)

evaluate(n, td) == EvalLoop(n, td, 1)

\* asvector(j): the one-hot column of digit j.
asvector(d) ==
    Array(<<OutputSize, 1>>, LAMBDA i, j : IF i = d + 1 THEN Unit ELSE 0)

\* ------------------------------------------------------------- the inputs

\* Layer-size lists handed to the constructor.
LayerSizes ==
    { <<>>, <<InputSize>>, <<OutputSize>>, <<OutputSize, InputSize>>,
      <<InputSize, 30>>, <<30, OutputSize>>, <<InputSize, -1, OutputSize>>,
      <<InputSize, OutputSize>>, <<InputSize, 2, OutputSize>>,
      <<InputSize, 3, 2, OutputSize>> }

Seeds == {1234}

\* Images: black, dim and white, each (784, 1).
Image(i) ==
    full(<<InputSize, 1>>,
         IF i % 3 = 1 THEN Unit \div 32 ELSE IF i % 3 = 2 THEN 0 ELSE Unit)

\* Arrays of a wrong shape: (784,), (10, 1), (1, 784), (784, 2).
WrongInputs ==
    { full(<<InputSize>>, 0), full(<<OutputSize, 1>>, 0),
      full(<<1, InputSize>>, 0), full(<<InputSize, 2>>, 0) }

\* Targets of a wrong shape: (10,), (784, 1), (1, 10).
WrongTargets ==
    { full(<<OutputSize>>, 0), full(<<InputSize, 1>>, 0),
      full(<<1, OutputSize>>, 0) }

\* The i-th training example (x, y) and the i-th test example (x, digit).
TrainEx(i) == [x |-> Image(i), y |-> asvector((3 * i) % OutputSize)]

TestEx(i) == [x |-> Image(i), y |-> (i - 1) % OutputSize]

\* An example whose image is (784,) instead of (784, 1).
Malformed == [x |-> full(<<InputSize>>, 0), y |-> asvector(1)]

\* Training sets of well-shaped examples, and sets of 1 or 3 well-shaped
\* examples with a malformed one.
TrainSets == { List1(n, TrainEx) : n \in 0..MaxTrain }
             \cup { Append(List1(n, TrainEx), Malformed) : n \in {1, 3} }

\* test_data: None, or a list.
None == [none |-> TRUE, items |-> <<>>]

List(s) == [none |-> FALSE, items |-> s]

TestSets == { None, List(<<>>), List(<<TestEx(1)>>), List(<<TestEx(1), TestEx(2)>>) }

\* The lists handed to evaluate directly.
EvalSets ==
    (TestSets \ {None}) \cup { List(<<TestEx(2)>>), List(<<TestEx(2), TestEx(2)>>) }

Etas == {1, 2}

\* Python's bool(v) of None or a list.
Truthy(v) == ~v.none /\ Len(v.items) > 0

Perms(n) == { p \in [1..n -> 1..n] : \A a, b \in 1..n : p[a] = p[b] => a = b }

\* ------------------------------------------------------------------ state

VARIABLES
    pc,             \* "start", "failed", "idle", or the place in SGD
    ctor,           \* the arguments of the constructor call
    net,            \* the network object: nlayers, layersz, biases, weights
    err,            \* the exception raised by the call, "none" if none
    ret,            \* the last direct call of feedforward/backpropagate/evaluate
    args,           \* the arguments of the SGD call
    training_data,  \* the caller's training list (SGD shuffles it in place)
    j,              \* SGD: the epoch index
    batches,        \* SGD: the batches of the epoch
    b,              \* SGD: the position of the current batch in batches
    k,              \* SGD: the position of the current example in the batch
    sums,           \* SGD: dC_dBias_sum and dC_dWeight_sum
    out,            \* the lines printed
    hist,           \* history: updates applied, examples backpropagated this epoch
    threads,        \* the local variables of each backpropagate call in progress
    runs            \* backprop_numpy and autograd_pytorch side by side

vars == <<pc, ctor, net, err, ret, args, training_data, j, batches, b, k,
          sums, out, hist, threads, runs>>

NoArgs == [training_data |-> <<>>, epochs |-> 0, batchsz |-> 1, eta |-> 1,
           test_data |-> None]

NoSums == [dC_dBias_sum |-> <<>>, dC_dWeight_sum |-> <<>>]

NoRet == [op |-> "none"]

Init ==
    /\ pc = "start"
    /\ ctor = [layersz |-> <<>>, seed |-> 0]
    /\ net = NoNetwork
    /\ err = "none"
    /\ ret = NoRet
    /\ args = NoArgs
    /\ training_data = <<>>
    /\ j = 0
    /\ batches = <<>>
    /\ b = 0
    /\ k = 0
    /\ sums = NoSums
    /\ out = <<>>
    /\ hist = [updates |-> 0, seen |-> <<>>]
    /\ threads = <<>>
    /\ runs = <<>>

sgdVars == <<args, training_data, j, batches, b, k, sums, out, hist>>

\* net = NeuralNetworkMNISTBackProp(layersz)
Construct ==
    /\ pc = "start"
    /\ \E layersz \in LayerSizes, seed \in Seeds :
         \E r \in {NewNetwork(layersz, seed)} :
             /\ ctor' = [layersz |-> layersz, seed |-> seed]
             /\ err' = r.err
             /\ net' = r.net
             /\ pc' = IF r.err = "none" THEN "idle" ELSE "failed"
    /\ UNCHANGED <<runs, threads, ret, sgdVars>>

\* feedforward adding each product into the bias vector in place
\* (b += np.dot(w, a); a = sigmoid(b)): the value returned is the same.
Feedforward_InPlace ==
    /\ pc = "idle"
    /\ \E a \in {Image(1), Image(2), Image(3)} \cup WrongInputs :
         \E r \in {feedforward(net, a)} :
            /\ ret' = [op |-> "feedforward", a |-> a, res |-> r]
            /\ net' = IF r.err # "none" THEN net
                      ELSE [net EXCEPT !.biases =
                              ForwardPass(net, [activation |-> a,
                                                activations |-> <<a>>,
                                                zs |-> <<>>], 1).zs]
    /\ UNCHANGED <<runs, threads, pc, ctor, err, sgdVars>>

\* net.feedforward(a)
Feedforward ==
    /\ pc = "idle"
    /\ \E a \in {Image(1), Image(2), Image(3)} \cup WrongInputs :
         ret' = [op |-> "feedforward", a |-> a, res |-> feedforward(net, a)]
    /\ UNCHANGED <<runs, threads, pc, ctor, net, err, sgdVars>>

\* net.backpropagate(x, y)
Backpropagate ==
    /\ pc = "idle"
    /\ \E x \in {Image(1)} \cup WrongInputs,
          y \in {asvector(3)} \cup WrongTargets :
         ret' = [op |-> "backpropagate", x |-> x, y |-> y,
                 res |-> backpropagate(net, x, y)]
    /\ UNCHANGED <<runs, threads, pc, ctor, net, err, sgdVars>>

\* net.evaluate(test_data)
Evaluate ==
    /\ pc = "idle"
    /\ \E td \in EvalSets :
         ret' = [op |-> "evaluate", test_data |-> td.items,
                 res |-> evaluate(net, td.items)]
    /\ UNCHANGED <<runs, threads, pc, ctor, net, err, sgdVars>>

\* net.SGD(training_data, epochs, batchsz, eta, test_data)
SGD_Call ==
    /\ pc = "idle"
    /\ ret' = NoRet
    /\ \E td \in TrainSets, epochs \in 0..MaxEpochs, batchsz \in 1..MaxBatch,
          eta \in Etas, test \in TestSets :
         /\ epochs * Len(td) <= MaxWork
         /\ args' = [training_data |-> td, epochs |-> epochs,
                     batchsz |-> batchsz, eta |-> eta, test_data |-> test]
         /\ training_data' = td
    /\ j' = 0
    /\ pc' = "epoch"
    /\ UNCHANGED <<runs, threads, ctor, net, err, batches, b, k, sums, out, hist>>

\* The epoch loop running once more than epochs.
SGD_Epoch_OneMore ==
    /\ pc = "epoch"
    /\ j <= args.epochs
    /\ \E p \in Perms(Len(training_data)) :
         LET shuffled == List1(Len(training_data), LAMBDA i : training_data[p[i]])
             starts   == PyRange(0, Len(shuffled), args.batchsz)
         IN  /\ training_data' = shuffled
             /\ batches' = List1(Len(starts), LAMBDA i :
                              PySlice(shuffled, starts[i], starts[i] + args.batchsz))
    /\ b' = 1
    /\ hist' = [hist EXCEPT !.seen = <<>>]
    /\ pc' = "batch"
    /\ UNCHANGED <<runs, threads, ctor, net, err, ret, args, j, k, sums, out>>

\* The epoch loop drawing len(training_data) examples with replacement
\* instead of shuffling.
SGD_Epoch_Resamples ==
    /\ pc = "epoch"
    /\ j < args.epochs
    /\ \E p \in [1..Len(training_data) -> 1..Len(training_data)] :
         LET shuffled == List1(Len(training_data), LAMBDA i : training_data[p[i]])
             starts   == PyRange(0, Len(shuffled), args.batchsz)
         IN  /\ training_data' = shuffled
             /\ batches' = List1(Len(starts), LAMBDA i :
                              PySlice(shuffled, starts[i], starts[i] + args.batchsz))
    /\ b' = 1
    /\ hist' = [hist EXCEPT !.seen = <<>>]
    /\ pc' = "batch"
    /\ UNCHANGED <<runs, threads, ctor, net, err, ret, args, j, k, sums, out>>

\* for j in range(epochs): shuffle, cut into batches
SGD_Epoch ==
    /\ pc = "epoch"
    /\ j < args.epochs
    /\ \E p \in Perms(Len(training_data)) :
         LET shuffled == List1(Len(training_data), LAMBDA i : training_data[p[i]])
             starts   == PyRange(0, Len(shuffled), args.batchsz)
         IN  /\ training_data' = shuffled
             /\ batches' = List1(Len(starts), LAMBDA i :
                              PySlice(shuffled, starts[i], starts[i] + args.batchsz))
    /\ b' = 1
    /\ hist' = [hist EXCEPT !.seen = <<>>]
    /\ pc' = "batch"
    /\ UNCHANGED <<runs, threads, ctor, net, err, ret, args, j, k, sums, out>>

\* for batch in batches: fresh gradient sums
SGD_Batch ==
    /\ pc = "batch"
    /\ IF b <= Len(batches)
       THEN /\ sums' = [dC_dBias_sum   |-> List1(Len(net.biases),
                                              LAMBDA i : zeros(net.biases[i].shape)),
                        dC_dWeight_sum |-> List1(Len(net.weights),
                                              LAMBDA i : zeros(net.weights[i].shape))]
            /\ k' = 1
            /\ pc' = IF Len(batches[b]) = 0 THEN "update" ELSE "example"
       ELSE /\ pc' = "report"
            /\ UNCHANGED <<sums, k>>
    /\ UNCHANGED <<runs, threads, ctor, net, err, ret, args, training_data, j, batches, b,
                   out, hist>>

\* The update with the learning rate divided by the configured batch size.
Updated_ByBatchsz(n, s, eta, batch) ==
    LET eta_scaled == Div(eta * Unit, args.batchsz * Unit)
    IN  [n EXCEPT
           !.weights = List1(PyZipLen(n.weights, s.dC_dWeight_sum),
                          LAMBDA i : Sub(n.weights[i],
                                         Scale(eta_scaled, s.dC_dWeight_sum[i]))),
           !.biases  = List1(PyZipLen(n.biases, s.dC_dBias_sum),
                          LAMBDA i : Sub(n.biases[i],
                                         Scale(eta_scaled, s.dC_dBias_sum[i])))]

\* The update with the learning rate not divided by the batch length.
Updated_Unscaled(n, s, eta, batch) ==
    LET eta_scaled == eta * Unit
    IN  [n EXCEPT
           !.weights = List1(PyZipLen(n.weights, s.dC_dWeight_sum),
                          LAMBDA i : Sub(n.weights[i],
                                         Scale(eta_scaled, s.dC_dWeight_sum[i]))),
           !.biases  = List1(PyZipLen(n.biases, s.dC_dBias_sum),
                          LAMBDA i : Sub(n.biases[i],
                                         Scale(eta_scaled, s.dC_dBias_sum[i])))]

\* The update with the biases lowered by the weight gradients.
Updated_BiasFromWeights(n, s, eta, batch) ==
    LET eta_scaled == Div(eta * Unit, Len(batch) * Unit)
    IN  [n EXCEPT
           !.weights = List1(PyZipLen(n.weights, s.dC_dWeight_sum),
                          LAMBDA i : Sub(n.weights[i],
                                         Scale(eta_scaled, s.dC_dWeight_sum[i]))),
           !.biases  = List1(PyZipLen(n.biases, s.dC_dWeight_sum),
                          LAMBDA i : Sub(n.biases[i],
                                         Scale(eta_scaled, s.dC_dWeight_sum[i])))]

\* The parameters after the update of lines 209-211.
Updated(n, s, eta, batch) ==
    LET eta_scaled == Div(eta * Unit, Len(batch) * Unit)
    IN  [n EXCEPT
           !.weights = List1(PyZipLen(n.weights, s.dC_dWeight_sum),
                          LAMBDA i : Sub(n.weights[i],
                                         Scale(eta_scaled, s.dC_dWeight_sum[i]))),
           !.biases  = List1(PyZipLen(n.biases, s.dC_dBias_sum),
                          LAMBDA i : Sub(n.biases[i],
                                         Scale(eta_scaled, s.dC_dBias_sum[i])))]

\* The loop body applying each example's gradient to the parameters at once.
SGD_Example_Online ==
    /\ pc = "example"
    /\ \E ex \in {batches[b][k]} : \E g \in {backpropagate(net, ex.x, ex.y)} :
           IF g.err # "none"
           THEN /\ err' = g.err
                /\ pc' = "raised"
                /\ UNCHANGED <<net, sums, k, hist>>
           ELSE /\ net' = Updated(net, [dC_dBias_sum   |-> g.dC_dBias,
                                        dC_dWeight_sum |-> g.dC_dWeight],
                                  args.eta, batches[b])
                /\ sums' = sums
                /\ k' = k + 1
                /\ hist' = [hist EXCEPT !.seen = Append(@, ex)]
                /\ pc' = IF k = Len(batches[b]) THEN "update" ELSE "example"
                /\ err' = err
    /\ UNCHANGED <<runs, threads, ctor, ret, args, training_data, j, batches, b, out>>

\* The loop body inside try/finally: a raise of backpropagate still applies
\* the update of the gradients summed so far before it propagates.
SGD_Example_AppliesPartial ==
    /\ pc = "example"
    /\ \E ex \in {batches[b][k]} : \E g \in {backpropagate(net, ex.x, ex.y)} :
           IF g.err # "none"
           THEN /\ err' = g.err
                /\ pc' = "raised"
                /\ net' = Updated(net, sums, args.eta, batches[b])
                /\ UNCHANGED <<sums, k, hist>>
           ELSE /\ sums' =
                     [dC_dBias_sum   |->
                        List1(PyZipLen(sums.dC_dBias_sum, g.dC_dBias),
                           LAMBDA i : Add(sums.dC_dBias_sum[i], g.dC_dBias[i])),
                      dC_dWeight_sum |->
                        List1(PyZipLen(sums.dC_dWeight_sum, g.dC_dWeight),
                           LAMBDA i : Add(sums.dC_dWeight_sum[i], g.dC_dWeight[i]))]
                /\ k' = k + 1
                /\ hist' = [hist EXCEPT !.seen = Append(@, ex)]
                /\ pc' = IF k = Len(batches[b]) THEN "update" ELSE "example"
                /\ err' = err
                /\ net' = net
    /\ UNCHANGED <<runs, threads, ctor, ret, args, training_data, j, batches, b, out>>

\* for x, y in batch: backpropagate and add to the sums
SGD_Example ==
    /\ pc = "example"
    /\ \E ex \in {batches[b][k]} : \E g \in {backpropagate(net, ex.x, ex.y)} :
           IF g.err # "none"
           THEN /\ err' = g.err
                /\ pc' = "raised"
                /\ UNCHANGED <<sums, k, hist>>
           ELSE /\ sums' =
                     [dC_dBias_sum   |->
                        List1(PyZipLen(sums.dC_dBias_sum, g.dC_dBias),
                           LAMBDA i : Add(sums.dC_dBias_sum[i], g.dC_dBias[i])),
                      dC_dWeight_sum |->
                        List1(PyZipLen(sums.dC_dWeight_sum, g.dC_dWeight),
                           LAMBDA i : Add(sums.dC_dWeight_sum[i], g.dC_dWeight[i]))]
                /\ k' = k + 1
                /\ hist' = [hist EXCEPT !.seen = Append(@, ex)]
                /\ pc' = IF k = Len(batches[b]) THEN "update" ELSE "example"
                /\ err' = err
    /\ UNCHANGED <<runs, threads, ctor, net, ret, args, training_data, j, batches, b, out>>

\* update weights/biases in the direction of the stochastic gradient
SGD_Update ==
    /\ pc = "update"
    /\ IF Len(batches[b]) = 0
       THEN /\ err' = "ZeroDivisionError"
            /\ pc' = "raised"
            /\ UNCHANGED <<net, b, hist>>
       ELSE /\ net' = Updated(net, sums, args.eta, batches[b])
            /\ b' = b + 1
            /\ hist' = [hist EXCEPT !.updates = @ + 1]
            /\ pc' = "batch"
            /\ err' = err
    /\ UNCHANGED <<runs, threads, ctor, ret, args, training_data, j, batches, k, sums, out>>

\* The end of an epoch: lines 213-215.
SGD_Report ==
    /\ pc = "report"
    /\ IF Truthy(args.test_data)
       THEN \E r \in {evaluate(net, args.test_data.items)} :
                IF r.err # "none"
                THEN /\ err' = r.err
                     /\ pc' = "raised"
                     /\ UNCHANGED <<out, j>>
                ELSE IF PyFormatOk(4, <<j + 1, r.value,
                                        Len(args.test_data.items), "dt">>)
                THEN /\ out' = Append(out, [kind |-> "accuracy", epoch |-> j + 1,
                                            correct |-> r.value,
                                            of |-> Len(args.test_data.items)])
                     /\ j' = j + 1
                     /\ pc' = "epoch"
                     /\ err' = err
                ELSE /\ err' = "TypeError"
                     /\ pc' = "raised"
                     /\ UNCHANGED <<out, j>>
       ELSE IF PyFormatOk(2, <<j + 1>>)
            THEN /\ out' = Append(out, [kind |-> "complete", epoch |-> j + 1,
                                        correct |-> 0, of |-> 0])
                 /\ j' = j + 1
                 /\ pc' = "epoch"
                 /\ err' = err
            ELSE /\ err' = "TypeError"
                 /\ pc' = "raised"
                 /\ UNCHANGED <<out, j>>
    /\ UNCHANGED <<runs, threads, ctor, net, ret, args, training_data, batches, b, k, sums, hist>>

\* range(epochs) is exhausted: SGD returns.
SGD_Return ==
    /\ pc = "epoch"
    /\ j >= args.epochs
    /\ pc' = "done"
    /\ UNCHANGED <<runs, threads, ctor, net, err, ret, sgdVars>>

\* ------------------------------------------- backpropagate calls at once

\* The examples handed to calls running at once: two well-shaped ones and
\* one whose image is (784,).
ParExamples ==
    { TrainEx(1), TrainEx(3), [x |-> full(<<InputSize>>, 0), y |-> asvector(1)] }

\* The local variables of a backpropagate(x, y) call that has not started.
NewCall(ex) ==
    [at |-> "check", x |-> ex.x, y |-> ex.y, err |-> "none",
     activation |-> <<>>, activations |-> <<>>, zs |-> <<>>, delta |-> <<>>,
     dC_dBias |-> <<>>, dC_dWeight |-> <<>>, i |-> 0, L |-> 0]

\* activation kept in an attribute of the network object (self.activation),
\* one slot for all calls.
Own_Shared(t) == 1

\* The call whose frame holds the name activation that call t reads and
\* writes: a local variable, so its own.
Own(t) == t

\* MaxThreads calls of net.backpropagate start on examples of their own.
Par_Call ==
    /\ pc = "idle"
    /\ pc' = "threads"
    /\ \E exs \in [1..MaxThreads -> ParExamples] :
         threads' = List1(MaxThreads, LAMBDA t : NewCall(exs[t]))
    /\ UNCHANGED <<runs, ctor, net, err, ret, sgdVars>>

\* Call t: lines 133-144 (the shape checks, the zero gradients, the caches).
Par_Check(t) ==
    /\ pc = "threads"
    /\ threads[t].at = "check"
    /\ LET c == threads[t]
       IN  IF \/ c.x.shape # <<PyIndex(net.layersz, 0), 1>>
              \/ c.y.shape # <<PyIndex(net.layersz, -1), 1>>
           THEN threads' = [threads EXCEPT ![t].at = "raised",
                                           ![t].err = "RuntimeError"]
           ELSE threads' =
                  [threads EXCEPT
                     ![t].dC_dBias = List1(Len(net.biases),
                                        LAMBDA m : zeros(net.biases[m].shape)),
                     ![t].dC_dWeight = List1(Len(net.weights),
                                          LAMBDA m : zeros(net.weights[m].shape)),
                     ![t].activations = <<c.x>>,
                     ![t].zs = <<>>,
                     ![t].i = 1,
                     ![t].at = IF PyZipLen(net.weights, net.biases) = 0
                               THEN "output" ELSE "forward",
                     ![Own(t)].activation = c.x]
    /\ UNCHANGED <<runs, pc, ctor, net, err, ret, sgdVars>>

\* Call t: one turn of the forward loop, lines 146-150.
Par_Forward(t) ==
    /\ pc = "threads"
    /\ threads[t].at = "forward"
    /\ LET c == threads[t]
       IN  \E z \in {Add(dot(net.weights[c.i], threads[Own(t)].activation),
                          net.biases[c.i])} :
             \E a \in {sigmoid(z)} :
                threads' =
                  [threads EXCEPT
                     ![t].zs = Append(@, z),
                     ![t].activations = Append(@, a),
                     ![t].i = @ + 1,
                     ![t].at = IF c.i = PyZipLen(net.weights, net.biases)
                               THEN "output" ELSE "forward",
                     ![Own(t)].activation = a]
    /\ UNCHANGED <<runs, pc, ctor, net, err, ret, sgdVars>>

\* Call t: the output layer, lines 156-158.
Par_Output(t) ==
    /\ pc = "threads"
    /\ threads[t].at = "output"
    /\ LET c == threads[t]
       IN  \E delta \in {Times(D_cost(PyIndex(c.activations, -1), c.y),
                                D_sigmoid(PyIndex(c.zs, -1)))} :
             threads' =
               [threads EXCEPT
                  ![t].delta = delta,
                  ![t].dC_dBias = PySet(@, -1, delta),
                  ![t].dC_dWeight =
                      PySet(@, -1, dot(delta, T(PyIndex(c.activations, -2)))),
                  ![t].L = 2,
                  ![t].at = IF 2 >= net.nlayers THEN "returned" ELSE "backward"]
    /\ UNCHANGED <<runs, pc, ctor, net, err, ret, sgdVars>>

\* Call t: one turn of the backward loop, lines 161-164, and the return.
Par_Backward(t) ==
    /\ pc = "threads"
    /\ threads[t].at = "backward"
    /\ LET c == threads[t]
       IN  \E delta \in {Times(dot(T(PyIndex(net.weights, -c.L + 1)), c.delta),
                                D_sigmoid(PyIndex(c.zs, -c.L)))} :
             threads' =
               [threads EXCEPT
                  ![t].delta = delta,
                  ![t].dC_dBias = PySet(@, -c.L, delta),
                  ![t].dC_dWeight =
                      PySet(@, -c.L,
                            dot(delta, T(PyIndex(c.activations, -c.L - 1)))),
                  ![t].L = @ + 1,
                  ![t].at = IF c.L + 1 >= net.nlayers
                            THEN "returned" ELSE "backward"]
    /\ UNCHANGED <<runs, pc, ctor, net, err, ret, sgdVars>>

NextPar ==
    \/ Construct
    \/ Par_Call
    \/ \E t \in 1..MaxThreads : Par_Check(t)
    \/ \E t \in 1..MaxThreads : Par_Forward(t)
    \/ \E t \in 1..MaxThreads : Par_Output(t)
    \/ \E t \in 1..MaxThreads : Par_Backward(t)

\* Several backpropagate calls on one network, their statements interleaved
\* in any order.
SpecPar == Init /\ [][NextPar]_vars

\* ------------------------------------ ComparisonNNImplementations.ipynb

\* The configuration cell and the constants of the training loops.
NREPS == 10

N == 64

D_in == 784

H == 30

D_out == 10

Iterations == 500

\* learning_rate = 1e-6, held as its inverse.
LearningRateInv == 1000000

\* A tensor all of whose entries are equal: its shape and that entry.  A
\* product of two such tensors, their sum, difference, clamp and transpose
\* are again of this kind, so the two training loops started on such data
\* only ever hold such tensors.
Tensor(r, c, v) == [shape |-> <<r, c>>, v |-> v]

\* a.mm(b), a.dot(b): each entry sums a.shape[1] equal products.
mm(a, c) == Tensor(a.shape[1], c.shape[2], a.shape[2] * Mul(a.v, c.v))

\* a.t(), a.T
t_(a) == Tensor(a.shape[2], a.shape[1], a.v)

\* a.clamp(min=0), np.maximum(a, 0)
clamp(a) == Tensor(a.shape[1], a.shape[2], IF a.v < 0 THEN 0 ELSE a.v)

\* a - b and a + b of tensors of one shape.
minus(a, c) == Tensor(a.shape[1], a.shape[2], a.v - c.v)

plus(a, c) == Tensor(a.shape[1], a.shape[2], a.v + c.v)

\* 2.0 * a
twice(a) == Tensor(a.shape[1], a.shape[2], 2 * a.v)

\* a.pow(2).sum(), np.square(a).sum(): a number.
sumsq(a) == a.shape[1] * a.shape[2] * Mul(a.v, a.v)

\* learning_rate * a
scaled(a) ==
    Tensor(a.shape[1], a.shape[2],
           IF a.v >= 0 THEN a.v \div LearningRateInv
           ELSE -((-a.v) \div LearningRateInv))

\* g with the entries at which h < 0 set to 0 (grad_h[h < 0] = 0; the
\* backward of clamp(min=0) passes the gradient where h >= 0).
masked(g, h) == Tensor(g.shape[1], g.shape[2], IF h.v < 0 THEN 0 ELSE g.v)

\* The generator seeds of the comparison, and the tensors drawn in
\* repetition counter after seeding with seed: x, y, w1, w2.
CmpSeeds == {1, 2}

Drawn(seed, counter) ==
    LET sx == IF (seed + counter) % 3 = 0 THEN -1 ELSE 1
        s1 == IF (seed + counter) % 4 = 3 THEN -1 ELSE 1
        s2 == IF counter % 2 = 0 THEN 1 ELSE -1
    IN  [x  |-> Tensor(N, D_in, sx * (Unit \div 4)),
         y  |-> Tensor(N, D_out, ((counter % 3) - 1) * Unit),
         w1 |-> Tensor(D_in, H, s1 * (Unit \div 32 + counter + seed)),
         w2 |-> Tensor(H, D_out, s2 * (Unit \div 8))]

\* No tensor: the value of a name not yet bound, and of .grad before the
\* first backward().
NoTensor == [shape |-> <<>>, v |-> 0]

\* The frames of the two functions before their first statement.
NewNumpy ==
    [at |-> "rep", counter |-> 0, t |-> 0,
     x |-> NoTensor, y |-> NoTensor, w1 |-> NoTensor, w2 |-> NoTensor,
     h |-> NoTensor, h_relu |-> NoTensor, y_pred |-> NoTensor, loss |-> 0,
     grad_w1 |-> NoTensor, grad_w2 |-> NoTensor]

NewAutograd ==
    [at |-> "rep", counter |-> 0, t |-> 0,
     x |-> NoTensor, y |-> NoTensor, w1 |-> NoTensor, w2 |-> NoTensor,
     w1_grad |-> NoTensor, w2_grad |-> NoTensor,
     h |-> NoTensor, y_pred |-> NoTensor, loss |-> 0]

\* How far a function has got: repetitions and iterations completed.
Pos(r) == r.counter * (Iterations + 1) + r.t

\* backprop_numpy() and autograd_pytorch() are started after the same
\* seeding of their generators.
Compare_Start ==
    /\ pc = "start"
    /\ pc' = "compare"
    /\ \E seed \in CmpSeeds :
         runs' = [seed |-> seed, np |-> NewNumpy, ag |-> NewAutograd]
    /\ UNCHANGED <<threads, ctor, net, err, ret, sgdVars>>

\* The two functions are taken through their loops side by side:
\* backprop_numpy runs an iteration, then autograd_pytorch runs the same one.
NumpyTurn == pc = "compare" /\ Pos(runs.np) <= Pos(runs.ag)

AutogradTurn ==
    pc = "compare" /\ (Pos(runs.ag) < Pos(runs.np) \/ runs.np.at = "done")

\* backprop_numpy: for counter in range(NREPS): draw x, y, w1, w2.
backprop_numpy_Rep ==
    /\ NumpyTurn
    /\ runs.np.at = "rep"
    /\ IF runs.np.counter < NREPS
       THEN \E d \in {Drawn(runs.seed, runs.np.counter)} :
              runs' = [runs EXCEPT !.np.x = d.x, !.np.y = d.y,
                                   !.np.w1 = d.w1, !.np.w2 = d.w2,
                                   !.np.t = 0, !.np.at = "loop"]
       ELSE runs' = [runs EXCEPT !.np.at = "done"]
    /\ UNCHANGED <<threads, pc, ctor, net, err, ret, sgdVars>>

\* backprop_numpy: for t in range(500): forward pass and loss.
backprop_numpy_Forward ==
    /\ NumpyTurn
    /\ runs.np.at = "loop"
    /\ IF runs.np.t < Iterations
       THEN \E h \in {mm(runs.np.x, runs.np.w1)} :
            \E y_pred \in {mm(clamp(h), runs.np.w2)} :
              runs' = [runs EXCEPT !.np.h = h, !.np.h_relu = clamp(h),
                                   !.np.y_pred = y_pred,
                                   !.np.loss = sumsq(minus(y_pred, runs.np.y)),
                                   !.np.at = "backprop"]
       ELSE runs' = [runs EXCEPT !.np.counter = @ + 1, !.np.t = 0,
                                 !.np.at = "rep"]
    /\ UNCHANGED <<threads, pc, ctor, net, err, ret, sgdVars>>

\* backprop_numpy: the gradients of w1 and w2 by hand.
backprop_numpy_Backprop ==
    /\ NumpyTurn
    /\ runs.np.at = "backprop"
    /\ LET r == runs.np
           grad_y_pred == twice(minus(r.y_pred, r.y))
           grad_w2     == mm(t_(r.h_relu), grad_y_pred)
           grad_h_relu == mm(grad_y_pred, t_(r.w2))
           grad_h      == masked(grad_h_relu, r.h)
           grad_w1     == mm(t_(r.x), grad_h)
       IN  runs' = [runs EXCEPT !.np.grad_w1 = grad_w1, !.np.grad_w2 = grad_w2,
                                !.np.at = "update"]
    /\ UNCHANGED <<threads, pc, ctor, net, err, ret, sgdVars>>

\* backprop_numpy: w1 -= learning_rate * grad_w1, the same for w2.
backprop_numpy_Update ==
    /\ NumpyTurn
    /\ runs.np.at = "update"
    /\ runs' = [runs EXCEPT
                  !.np.w1 = minus(@, scaled(runs.np.grad_w1)),
                  !.np.w2 = minus(@, scaled(runs.np.grad_w2)),
                  !.np.t = @ + 1,
                  !.np.at = "loop"]
    /\ UNCHANGED <<threads, pc, ctor, net, err, ret, sgdVars>>

\* autograd_pytorch: for counter in range(NREPS): new Variables, which have
\* no gradient yet.
autograd_pytorch_Rep ==
    /\ AutogradTurn
    /\ runs.ag.at = "rep"
    /\ IF runs.ag.counter < NREPS
       THEN \E d \in {Drawn(runs.seed, runs.ag.counter)} :
              runs' = [runs EXCEPT !.ag.x = d.x, !.ag.y = d.y,
                                   !.ag.w1 = d.w1, !.ag.w2 = d.w2,
                                   !.ag.w1_grad = NoTensor,
                                   !.ag.w2_grad = NoTensor,
                                   !.ag.t = 0, !.ag.at = "loop"]
       ELSE runs' = [runs EXCEPT !.ag.at = "done"]
    /\ UNCHANGED <<threads, pc, ctor, net, err, ret, sgdVars>>

\* autograd_pytorch: for t in range(500): y_pred and loss, as a graph.
autograd_pytorch_Forward ==
    /\ AutogradTurn
    /\ runs.ag.at = "loop"
    /\ IF runs.ag.t < Iterations
       THEN \E h \in {mm(runs.ag.x, runs.ag.w1)} :
            \E y_pred \in {mm(clamp(h), runs.ag.w2)} :
              runs' = [runs EXCEPT !.ag.h = h, !.ag.y_pred = y_pred,
                                   !.ag.loss = sumsq(minus(y_pred, runs.ag.y)),
                                   !.ag.at = "backward"]
       ELSE runs' = [runs EXCEPT !.ag.counter = @ + 1, !.ag.t = 0,
                                 !.ag.at = "rep"]
    /\ UNCHANGED <<threads, pc, ctor, net, err, ret, sgdVars>>

\* What loss.backward() does to the gradient of a leaf: the first call
\* stores the gradient, every later call adds to what is stored.
Accumulate(grad, g) == IF grad = NoTensor THEN g ELSE plus(grad, g)

\* autograd_pytorch: loss.backward(), back through sum, pow(2), the
\* subtraction, the second product, the clamp and the first product.
autograd_pytorch_Backward ==
    /\ AutogradTurn
    /\ runs.ag.at = "backward"
    /\ LET r == runs.ag
           d_diff   == twice(minus(r.y_pred, r.y))
           d_w2     == mm(t_(clamp(r.h)), d_diff)
           d_h_relu == mm(d_diff, t_(r.w2))
           d_h      == masked(d_h_relu, r.h)
           d_w1     == mm(t_(r.x), d_h)
       IN  runs' = [runs EXCEPT !.ag.w1_grad = Accumulate(@, d_w1),
                                !.ag.w2_grad = Accumulate(@, d_w2),
                                !.ag.at = "update"]
    /\ UNCHANGED <<threads, pc, ctor, net, err, ret, sgdVars>>

\* autograd_pytorch: w1.data -= learning_rate * w1.grad.data, the same for w2.
autograd_pytorch_Update ==
    /\ AutogradTurn
    /\ runs.ag.at = "update"
    /\ runs' = [runs EXCEPT
                  !.ag.w1 = minus(@, scaled(runs.ag.w1_grad)),
                  !.ag.w2 = minus(@, scaled(runs.ag.w2_grad)),
                  !.ag.at = "zero"]
    /\ UNCHANGED <<threads, pc, ctor, net, err, ret, sgdVars>>

\* The end of the loop body without the two zero_() calls.
autograd_pytorch_Zero_Forgotten ==
    /\ AutogradTurn
    /\ runs.ag.at = "zero"
    /\ runs' = [runs EXCEPT !.ag.t = @ + 1,
                            !.ag.at = "loop"]
    /\ UNCHANGED <<threads, pc, ctor, net, err, ret, sgdVars>>

\* autograd_pytorch: w1.grad.data.zero_(); w2.grad.data.zero_()
autograd_pytorch_Zero ==
    /\ AutogradTurn
    /\ runs.ag.at = "zero"
    /\ runs' = [runs EXCEPT
                  !.ag.w1_grad = Tensor(@.shape[1], @.shape[2], 0),
                  !.ag.w2_grad = Tensor(@.shape[1], @.shape[2], 0),
                  !.ag.t = @ + 1,
                  !.ag.at = "loop"]
    /\ UNCHANGED <<threads, pc, ctor, net, err, ret, sgdVars>>

NextCompare ==
    \/ Compare_Start
    \/ backprop_numpy_Rep
    \/ backprop_numpy_Forward
    \/ backprop_numpy_Backprop
    \/ backprop_numpy_Update
    \/ autograd_pytorch_Rep
    \/ autograd_pytorch_Forward
    \/ autograd_pytorch_Backward
    \/ autograd_pytorch_Update
    \/ autograd_pytorch_Zero

\* The two training loops of the comparison notebook on the same data.
SpecCompare == Init /\ [][NextCompare]_vars

Next ==
    \/ Construct
    \/ Feedforward
    \/ Backpropagate
    \/ Evaluate
    \/ SGD_Call
    \/ SGD_Epoch
    \/ SGD_Batch
    \/ SGD_Example
    \/ SGD_Update
    \/ SGD_Report
    \/ SGD_Return

Spec == Init /\ [][Next]_vars

\* ------------------------------------------------------------ properties

\* The network as the constructor left it.
InitialNet == NewNetwork(ctor.layersz, ctor.seed).net

\* Every example is an (784, 1) image with a (10, 1) target.
WellShaped(td) ==
    \A i \in 1..Len(td) : /\ td[i].x.shape = <<InputSize, 1>>
                          /\ td[i].y.shape = <<OutputSize, 1>>

InSGD == pc \in {"epoch", "batch", "example", "update", "report", "raised", "done"}

Ceil(a, c) == (a + c - 1) \div c

RECURSIVE Flatten(_)
Flatten(ss) == IF ss = <<>> THEN <<>> ELSE Head(ss) \o Flatten(Tail(ss))

\* The per-example gradients of a batch at the parameters of n.
Gradients(n, batch) ==
    List1(Len(batch), LAMBDA e : backpropagate(n, batch[e].x, batch[e].y))

\* n is p with each entry lowered by (eta / count) times the sum over the
\* gradients g of that entry.
IsStep(n, p, g, eta, count) ==
    /\ Len(n.weights) = Len(p.weights)
    /\ Len(n.biases) = Len(p.biases)
    /\ \A i \in 1..Len(p.weights) :
         /\ n.weights[i].shape = p.weights[i].shape
         /\ \A r \in 1..Len(p.weights[i].data) :
              \A c \in 1..Len(p.weights[i].data[r]) :
                 n.weights[i].data[r][c] =
                    p.weights[i].data[r][c]
                    - Mul(Div(eta * Unit, count * Unit),
                          SumSeq(List1(Len(g), LAMBDA e :
                                    g[e].dC_dWeight[i].data[r][c])))
    /\ \A i \in 1..Len(p.biases) :
         /\ n.biases[i].shape = p.biases[i].shape
         /\ \A r \in 1..Len(p.biases[i].data) :
                 n.biases[i].data[r][1] =
                    p.biases[i].data[r][1]
                    - Mul(Div(eta * Unit, count * Unit),
                          SumSeq(List1(Len(g), LAMBDA e :
                                    g[e].dC_dBias[i].data[r][1])))

\* C1 (as claimed): an SGD call with epochs >= 1, well-shaped training
\* examples and no evaluation set raises no error, and when it has returned
\* it has printed one completion line per epoch.
C1_NoEvalSetCompletes ==
    (InSGD /\ args.test_data = None /\ args.epochs >= 1
           /\ WellShaped(args.training_data)) =>
        /\ pc # "raised"
        /\ err = "none"
        /\ pc = "done" =>
             /\ Len(out) = args.epochs
             /\ \A i \in 1..Len(out) : out[i].kind = "complete"

\* C2: every update step of SGD lowers each weight and each bias by
\* (eta / count) times the sum of the backpropagation gradients of the
\* examples of the batch, count being the number of examples in the batch.
C2_UpdateIsScaledGradientSum ==
    [][(pc = "update" /\ pc' = "batch") =>
          \A g \in {Gradients(net, batches[b])} :
             IsStep(net', net, g, args.eta, Len(batches[b]))]_vars

\* C2 witness: the update of a final batch shorter than batchsz has been
\* applied and has changed the parameters.
C2_Witness ==
    /\ pc = "batch"
    /\ b = Len(batches) + 1
    /\ Len(batches) >= 2
    /\ Len(batches[Len(batches)]) < args.batchsz
    /\ hist.updates = Len(batches)
    /\ net # InitialNet

\* C3: in every epoch the batches are consecutive slices of the shuffled
\* training set that partition it: ceil(n / batchsz) of them, all of
\* batchsz examples but the last, which holds the rest; and at the end of
\* the epoch backpropagate has been run once on each example.
C3_BatchesPartition ==
    pc \in {"batch", "example", "update", "report"} =>
        LET n  == Len(args.training_data)
            bs == args.batchsz
            m  == Ceil(n, bs)
        IN  /\ Len(training_data) = n
            /\ \E p \in Perms(n) :
                 \A i \in 1..n : training_data[i] = args.training_data[p[i]]
            /\ Len(batches) = m
            /\ Flatten(batches) = training_data
            /\ \A i \in 1..(m - 1) : Len(batches[i]) = bs
            /\ m >= 1 => Len(batches[m]) = n - bs * (m - 1)
            /\ pc = "report" => hist.seen = training_data

\* C3 witness: an epoch over three shuffled examples in batches of two has
\* ended: one full batch and a last batch of one.
C3_Witness ==
    /\ pc = "report"
    /\ args.batchsz = 2
    /\ Len(batches) = 2
    /\ Len(batches[1]) = 2
    /\ Len(batches[2]) = 1
    /\ training_data # args.training_data
    /\ hist.seen = training_data

\* C4: during SGD the parameters change only in the update step of a batch,
\* which comes after backpropagate has run on every example of that batch
\* and counts as one update; between two batch boundaries exactly one update
\* is applied; and when SGD has returned, epochs * ceil(n / batchsz)
\* updates have been applied.
C4_UpdatesOnlyBetweenBatches ==
    /\ [][(net' # net \/ hist'.updates # hist.updates) =>
             \/ pc = "start"
             \/ /\ pc = "update"
                /\ pc' = "batch"
                /\ k = Len(batches[b]) + 1
                /\ SubSeq(hist.seen, Len(hist.seen) - Len(batches[b]) + 1,
                          Len(hist.seen)) = batches[b]
                /\ hist'.updates = hist.updates + 1
                /\ hist'.seen = hist.seen]_vars
    /\ [](pc \in {"batch", "example", "update"} =>
             hist.updates = j * Len(batches) + (b - 1))
    /\ [](pc = "done" =>
             hist.updates = args.epochs * Ceil(Len(args.training_data),
                                               args.batchsz))

\* C4 witness: SGD has returned after two epochs of two batches each, with
\* four updates applied.
C4_Witness ==
    /\ pc = "done"
    /\ args.epochs = 2
    /\ Len(batches) = 2
    /\ hist.updates = 4
    /\ net # InitialNet

\* C5: an SGD call with epochs = 0 applies no update and leaves weights and
\* biases as they were, whatever the training set, batchsz, eta and
\* evaluation set.
C5_ZeroEpochsNoChange ==
    (InSGD /\ args.epochs = 0) =>
        /\ net = InitialNet
        /\ hist.updates = 0
        /\ pc \in {"epoch", "done"}

\* C5 witness: SGD has returned from a call with epochs = 0, a training set
\* of several examples and an evaluation set.
C5_Witness ==
    /\ pc = "done"
    /\ args.epochs = 0
    /\ Len(args.training_data) >= 2
    /\ Truthy(args.test_data)
    /\ net = InitialNet

\* C6: with epochs = 1 and batchsz = n >= 1, the epoch applies exactly one
\* update, the full-batch step from the initial parameters: each parameter
\* lowered by (eta / n) times the sum of the gradients of all n examples at
\* the initial parameters, whatever the shuffle.
C6_FullBatchIsOneStep ==
    (/\ pc \in {"report", "done"}
     /\ args.epochs = 1
     /\ Len(args.training_data) >= 1
     /\ args.batchsz = Len(args.training_data)) =>
        /\ hist.updates = 1
        /\ \A g \in {Gradients(InitialNet, args.training_data)} :
              IsStep(net, InitialNet, g, args.eta, Len(args.training_data))

\* C6 witness: one epoch over three examples in one batch of three has
\* ended, the shuffle has reordered the examples, and the parameters moved.
C6_Witness ==
    /\ pc = "done"
    /\ args.epochs = 1
    /\ args.batchsz = 3
    /\ Len(args.training_data) = 3
    /\ training_data # args.training_data
    /\ hist.updates = 1
    /\ net # InitialNet

\* C7: a constructor call with a non-empty layer-size list whose first
\* element is not 784 or whose last element is not 10 raises the
\* configuration error (RuntimeError) and leaves no weights or biases; a
\* list of positive sizes that meets both constraints yields a network.
C7_ConstructorValidates ==
    pc # "start" =>
        LET l == ctor.layersz
        IN  /\ (Len(l) >= 1 /\ (l[1] # InputSize \/ l[Len(l)] # OutputSize)) =>
                  /\ pc = "failed"
                  /\ err = "RuntimeError"
                  /\ net = NoNetwork
            /\ (/\ Len(l) >= 1
                /\ l[1] = InputSize
                /\ l[Len(l)] = OutputSize
                /\ \A i \in 1..Len(l) : l[i] > 0) =>
                  /\ pc # "failed"
                  /\ net.layersz = l
                  /\ Len(net.weights) >= 1

\* C7 witness: the constructor has refused a list whose first element is
\* 784 and whose last element is not 10.
C7_Witness ==
    /\ pc = "failed"
    /\ err = "RuntimeError"
    /\ Len(ctor.layersz) = 2
    /\ ctor.layersz[1] = InputSize
    /\ ctor.layersz[2] # OutputSize
    /\ net = NoNetwork

\* C8: every network the constructor yields has nlayers >= 2, at least one
\* weight matrix and one bias vector; a list of length 0 or 1 yields none.
C8_AtLeastTwoLayers ==
    /\ pc \notin {"start", "failed"} =>
          /\ net.nlayers >= 2
          /\ net.nlayers = Len(net.layersz)
          /\ Len(net.weights) >= 1
          /\ Len(net.biases) >= 1
    /\ (pc # "start" /\ Len(ctor.layersz) <= 1) =>
          /\ pc = "failed"
          /\ net = NoNetwork

\* C8 witness: the constructor has been called with the one-element list
\* [784] and has yielded no network.
C8_Witness ==
    /\ pc = "failed"
    /\ ctor.layersz = <<InputSize>>
    /\ net = NoNetwork

\* C9: a constructed network has nlayers - 1 weight matrices and nlayers - 1
\* bias vectors, weight matrix i of shape (layersz[i+1], layersz[i]) and
\* bias vector i of shape (layersz[i+1], 1), at construction and after every
\* SGD update.
C9_ParameterShapes ==
    pc \notin {"start", "failed"} =>
        LET l == ctor.layersz
        IN  /\ Len(net.weights) = Len(l) - 1
            /\ Len(net.biases) = Len(l) - 1
            /\ \A i \in 1..(Len(l) - 1) :
                  /\ net.weights[i].shape = <<l[i + 1], l[i]>>
                  /\ net.biases[i].shape = <<l[i + 1], 1>>
                  /\ Len(net.weights[i].data) = Stored(l[i + 1])
                  /\ \A r \in 1..Stored(l[i + 1]) :
                        Len(net.weights[i].data[r]) = Stored(l[i])
                  /\ Len(net.biases[i].data) = Stored(l[i + 1])

\* C9 witness: a four-layer network after two SGD updates that changed it.
C9_Witness ==
    /\ net.nlayers = 4
    /\ hist.updates >= 2
    /\ net # InitialNet

\* C10: feedforward called with an input whose shape is not (784, 1), and
\* backpropagate called with such an x or with a y whose shape is not
\* (10, 1), raise the shape error with no layer transition computed and
\* nothing returned, and leave weights and biases as they were.
C10_ShapeErrorsFirst ==
    /\ (ret.op = "feedforward" /\ ret.a.shape # <<InputSize, 1>>) =>
          /\ ret.res.err = "RuntimeError"
          /\ ret.res.steps = 0
          /\ ret.res.value = <<>>
          /\ net = InitialNet
    /\ (/\ ret.op = "backpropagate"
        /\ (ret.x.shape # <<InputSize, 1>> \/ ret.y.shape # <<OutputSize, 1>>)) =>
          /\ ret.res.err = "RuntimeError"
          /\ ret.res.activations = <<>>
          /\ ret.res.zs = <<>>
          /\ ret.res.dC_dBias = <<>>
          /\ ret.res.dC_dWeight = <<>>
          /\ net = InitialNet

\* C10 witness: backpropagate has been called with a well-shaped image and a
\* target of a wrong shape, and has raised.
C10_Witness ==
    /\ ret.op = "backpropagate"
    /\ ret.x.shape = <<InputSize, 1>>
    /\ ret.y.shape # <<OutputSize, 1>>
    /\ ret.res.err = "RuntimeError"

\* The activation of layer i (layer 0 is the input): each layer transition
\* applied to the activation of the layer before it.
RECURSIVE LayerActivation(_, _, _)
LayerActivation(n, a, i) ==
    IF i = 0 THEN a
    ELSE sigmoid(Add(dot(n.weights[i], LayerActivation(n, a, i - 1)),
                     n.biases[i]))

\* C11: a feedforward call changes neither the network (weights, biases,
\* layer sizes) nor anything else but its own result, and the value it
\* returns for a well-shaped input is the activation of the last layer
\* obtained by applying a = sigmoid(W.a + b) transition by transition from
\* the input on, with the weights and biases the network has.
C11_FeedforwardIsPure ==
    /\ [][(ret'.op = "feedforward" /\ ret' # ret) =>
             /\ net' = net
             /\ UNCHANGED <<runs, threads, pc, ctor, err, sgdVars>>]_vars
    /\ [](ret.op = "feedforward" =>
             /\ net = InitialNet
             /\ ret.a.shape = <<InputSize, 1>> =>
                   /\ ret.res.err = "none"
                   /\ ret.res.steps = net.nlayers - 1
                   /\ ret.res.value =
                         LayerActivation(net, ret.a, net.nlayers - 1))

\* C11 witness: feedforward has returned the output of a network with two
\* hidden layers for a well-shaped image.
C11_Witness ==
    /\ ret.op = "feedforward"
    /\ net.nlayers = 4
    /\ ret.res.err = "none"
    /\ ret.res.steps = 3
    /\ ret.res.value.shape = <<OutputSize, 1>>
    /\ ret.a = Image(1)

\* The pre-activations of the last layer in a feedforward of input a.
LastZ(n, a) ==
    Add(dot(n.weights[n.nlayers - 1], LayerActivation(n, a, n.nlayers - 2)),
        n.biases[n.nlayers - 1])

C14_ConcurrentCallsIndependent ==
    /\ [][pc = "threads" =>
             /\ net' = net
             /\ \A t, u \in 1..Len(threads) :
                   (threads'[t] # threads[t] /\ threads'[u] # threads[u]) => t = u]_vars
    /\ [](\A t \in 1..Len(threads) :
             LET c == threads[t]
             IN  /\ c.at = "returned" =>
                       \A g \in {backpropagate(net, c.x, c.y)} :
                          /\ g.err = "none"
                          /\ c.dC_dBias = g.dC_dBias
                          /\ c.dC_dWeight = g.dC_dWeight
                          /\ c.activations = g.activations
                          /\ c.zs = g.zs
                 /\ c.at = "raised" =>
                       /\ backpropagate(net, c.x, c.y).err = c.err
                       /\ c.dC_dBias = <<>>)
    /\ [](pc = "threads" => net = InitialNet)

\* C14 witness: on a network with two hidden layers, the second call has
\* returned while the first, on another example, is in its backward loop.
C14_Witness ==
    /\ pc = "threads"
    /\ net.nlayers = 4
    /\ threads[1].at = "backward"
    /\ threads[2].at = "returned"
    /\ threads[1].x # threads[2].x

\* The examples of td (by position) on which the index of the largest
\* output component equals the label.
Correct(n, td) ==
    { i \in 1..Len(td) : argmax(feedforward(n, td[i].x).value) = td[i].y }

\* C16: evaluate changes neither weights nor biases, and for a list of
\* well-shaped examples it returns the number of examples whose label is
\* the index of the largest component of feedforward(x): a number between 0
\* and the length of the list, 0 for the empty list, the length of the list
\* when every example is classified as labelled.
C16_EvaluateCountsCorrect ==
    /\ [][(ret'.op = "evaluate" /\ ret' # ret) =>
             /\ net' = net
             /\ UNCHANGED <<runs, threads, pc, ctor, err, sgdVars>>]_vars
    /\ [](ret.op = "evaluate" =>
             LET td == ret.test_data
             IN  \A good \in {Correct(net, td)} :
                   /\ ret.res.err = "none"
                   /\ ret.res.value = Cardinality(good)
                   /\ ret.res.value >= 0
                   /\ ret.res.value <= Len(td)
                   /\ td = <<>> => ret.res.value = 0
                   /\ good = 1..Len(td) => ret.res.value = Len(td))

\* C16 witness: evaluate has returned 2 for a list of two examples both
\* classified as labelled.
C16_Witness ==
    /\ ret.op = "evaluate"
    /\ Len(ret.test_data) = 2
    /\ ret.res.value = 2
    /\ net # NoNetwork

\* C17 (as claimed): after the forward pass of a backpropagate call the
\* activation cache and the pre-activation cache both hold one vector per
\* layer: nlayers entries each.
C17_BothCachesPerLayer ==
    (ret.op = "backpropagate" /\ ret.res.err = "none") =>
        /\ Len(ret.res.activations) = net.nlayers
        /\ Len(ret.res.zs) = net.nlayers

\* C17 (amended): after the forward pass of a backpropagate call the
\* activation cache holds one vector per layer (nlayers entries, from input
\* to output, the input itself first) and the pre-activation cache holds one
\* vector per layer transition (nlayers - 1 entries, from input to output:
\* the input layer has no pre-activation); entry i of the pre-activation
\* cache is W.a + b of transition i and entry i + 1 of the activation cache
\* is its sigmoid.
C17_CachesOfForwardPass ==
    (ret.op = "backpropagate" /\ ret.res.err = "none") =>
        LET r == ret.res
        IN  /\ Len(r.activations) = net.nlayers
            /\ Len(r.zs) = net.nlayers - 1
            /\ r.activations[1] = ret.x
            /\ \A i \in 1..(net.nlayers - 1) :
                  /\ r.zs[i] = Add(dot(net.weights[i], r.activations[i]),
                                   net.biases[i])
                  /\ r.activations[i + 1] = sigmoid(r.zs[i])
                  /\ r.zs[i].shape = <<net.layersz[i + 1], 1>>
                  /\ r.activations[i + 1].shape = <<net.layersz[i + 1], 1>>

\* C17 witness: backpropagate on a network of four layers has returned with
\* four activations and three pre-activations cached.
C17_Witness ==
    /\ ret.op = "backpropagate"
    /\ ret.res.err = "none"
    /\ net.nlayers = 4
    /\ Len(ret.res.activations) = 4
    /\ Len(ret.res.zs) = 3
    /\ ret.res.activations[1] = Image(1)

\* C18 (as claimed): when SGD is given an evaluation set, a list of any
\* length, the end of each epoch produces one accuracy report: the run does
\* not stop with an error, the lines printed are accuracy reports, one per
\* epoch ended, and each reports the value of evaluate on that set with the
\* parameters left by the epoch's last update, which the report leaves as
\* they are.
C18_EvalReportEachEpoch ==
    /\ []((InSGD /\ ~args.test_data.none /\ WellShaped(args.training_data)) =>
             /\ pc # "raised"
             /\ pc \in {"epoch", "done"} => Len(out) = j
             /\ \A i \in 1..Len(out) :
                   /\ out[i].kind = "accuracy"
                   /\ out[i].epoch = i
                   /\ out[i].of = Len(args.test_data.items))
    /\ [][(pc = "report" /\ ~args.test_data.none
              /\ WellShaped(args.training_data)) =>
             /\ pc' = "epoch"
             /\ net' = net
             /\ hist.updates = (j + 1) * Len(batches)
             /\ Len(out') = Len(out) + 1
             /\ out'[Len(out')].correct =
                    evaluate(net, args.test_data.items).value]_vars

\* The gradients of the loss (y_pred - y).pow(2).sum() with respect to w1
\* and w2 at the given data and weights.
LossGradient(x, y, w1, w2) ==
    LET h      == mm(x, w1)
        h_relu == clamp(h)
        g_y    == twice(minus(mm(h_relu, w2), y))
    IN  [w1 |-> mm(t_(x), masked(mm(g_y, t_(w2)), h)),
         w2 |-> mm(t_(h_relu), g_y)]

\* C19: in autograd_pytorch the gradients of w1 and w2 are cleared after
\* every weight update: each backward() finds them empty or zero, each
\* update subtracts learning_rate times the gradient of the loss of the
\* current iteration alone, and after the same number of iterations on the
\* same data and initial weights autograd_pytorch and backprop_numpy hold
\* the same weights.
C19_GradientsClearedEachIteration ==
    pc = "compare" =>
        LET a == runs.ag
            n == runs.np
        IN  /\ a.at = "backward" =>
                  /\ a.w1_grad \in {NoTensor, Tensor(D_in, H, 0)}
                  /\ a.w2_grad \in {NoTensor, Tensor(H, D_out, 0)}
            /\ a.at = "update" =>
                  \A g \in {LossGradient(a.x, a.y, a.w1, a.w2)} :
                     /\ a.w1_grad = g.w1
                     /\ a.w2_grad = g.w2
            /\ (a.at = "loop" /\ a.t > 0) =>
                  /\ a.w1_grad = Tensor(D_in, H, 0)
                  /\ a.w2_grad = Tensor(H, D_out, 0)
            /\ (a.at \in {"loop", "zero"} /\ n.at = "loop"
                  /\ n.counter = a.counter
                  /\ n.t = a.t + (IF a.at = "zero" THEN 1 ELSE 0)) =>
                  /\ a.w1 = n.w1
                  /\ a.w2 = n.w2

\* C19 witness: autograd_pytorch has completed the 500 iterations of a
\* repetition, its weights have moved from the ones drawn and are those of
\* backprop_numpy after its 500 iterations.
C19_Witness ==
    /\ pc = "compare"
    /\ runs.ag.at = "loop"
    /\ runs.ag.t = Iterations
    /\ runs.np.t = Iterations
    /\ runs.np.counter = runs.ag.counter
    /\ runs.ag.w1 # Drawn(runs.seed, runs.ag.counter).w1
    /\ runs.ag.w2 # Drawn(runs.seed, runs.ag.counter).w2
    /\ runs.ag.w1 = runs.np.w1
    /\ runs.ag.w2 = runs.np.w2

\* C20: in a backpropagate call on a network with n = nlayers - 1 layer
\* transitions (counted from 1 at the input here), the output step assigns
\* the gradients of transition n from delta = D_cost(a_last, y) *
\* D_sigmoid(z_last) and the activation entering transition n; then, for
\* L = 2, 3, ..., n in this order, the loop assigns the gradients of
\* transition n - L + 1 from the weight matrix of the transition after it,
\* its own pre-activation and the activation entering it.  Every index
\* used is in range, the transitions are assigned from output to input,
\* and each is assigned once.
C20_BackwardPassIndices ==
    (ret.op = "backpropagate" /\ ret.res.err = "none") =>
        LET r == ret.res
            n == net.nlayers - 1
        IN  /\ Len(r.used) = n
            /\ \A u \in 1..n :
                  LET s == r.used[u]
                      p == n - u + 1
                  IN  /\ s.L = u
                      /\ PyIndexOk(r.dC_dBias, s.dC_dBias)
                      /\ PyIndexOk(r.dC_dWeight, s.dC_dWeight)
                      /\ PyIndexOk(r.zs, s.zs)
                      /\ PyIndexOk(r.activations, s.activations)
                      /\ PyPos(r.dC_dBias, s.dC_dBias) = p
                      /\ PyPos(r.dC_dWeight, s.dC_dWeight) = p
                      /\ PyPos(r.zs, s.zs) = p
                      /\ PyPos(r.activations, s.activations) = p
                      /\ u > 1 => /\ PyIndexOk(net.weights, s.weights)
                                  /\ PyPos(net.weights, s.weights) = p + 1
            /\ r.dC_dBias[n] =
                  Times(D_cost(r.activations[n + 1], ret.y), D_sigmoid(r.zs[n]))
            /\ \A p \in 1..(n - 1) :
                  r.dC_dBias[p] =
                     Times(dot(T(net.weights[p + 1]), r.dC_dBias[p + 1]),
                           D_sigmoid(r.zs[p]))
            /\ \A p \in 1..n :
                  r.dC_dWeight[p] = dot(r.dC_dBias[p], T(r.activations[p]))

\* C20 witness: backpropagate on a network of four layers has returned
\* after the output step and two turns of the loop (L = 2, then L = 3), the
\* last of which read weights[-2], zs[-3] and activations[-4].
C20_Witness ==
    /\ ret.op = "backpropagate"
    /\ ret.res.err = "none"
    /\ net.nlayers = 4
    /\ Len(ret.res.used) = 3
    /\ ret.res.used[3].L = 3
    /\ ret.res.used[3].weights = -2
    /\ ret.res.used[3].zs = -3
    /\ ret.res.used[3].activations = -4

\* C21: with batchsz >= 1, every batch SGD forms holds between 1 and batchsz
\* examples, so the update never divides by a batch length of zero and no
\* ZeroDivisionError is raised; and an SGD call on an empty training set
\* forms no batch, reaches no example or update step and leaves the
\* parameters as they were, in every epoch.
C21_BatchesNeverEmpty ==
    InSGD =>
        /\ args.batchsz >= 1
        /\ \A i \in 1..Len(batches) :
             /\ Len(batches[i]) >= 1
             /\ Len(batches[i]) <= args.batchsz
        /\ pc = "update" => Len(batches[b]) # 0
        /\ err # "ZeroDivisionError"
        /\ Len(args.training_data) = 0 =>
             /\ batches = <<>>
             /\ pc \notin {"example", "update"}
             /\ hist.updates = 0
             /\ net = InitialNet

\* C21 witness: the update of a last batch of one example, shorter than
\* batchsz, is about to divide the learning rate by its length.
C21_Witness ==
    /\ pc = "update"
    /\ b = Len(batches)
    /\ Len(batches) = 2
    /\ args.batchsz = 2
    /\ Len(batches[b]) = 1
    /\ k = 2

\* dC_dBias_sum and dC_dWeight_sum after the first m examples of a batch,
\* at the parameters of n.
RECURSIVE SumGradients(_, _, _)
SumGradients(n, batch, m) ==
    IF m = 0
    THEN [dC_dBias_sum   |-> List1(Len(n.biases),
                                LAMBDA i : zeros(n.biases[i].shape)),
          dC_dWeight_sum |-> List1(Len(n.weights),
                                LAMBDA i : zeros(n.weights[i].shape))]
    ELSE LET s == SumGradients(n, batch, m - 1)
             g == backpropagate(n, batch[m].x, batch[m].y)
         IN  [dC_dBias_sum   |->
                List1(PyZipLen(s.dC_dBias_sum, g.dC_dBias),
                   LAMBDA i : Add(s.dC_dBias_sum[i], g.dC_dBias[i])),
              dC_dWeight_sum |->
                List1(PyZipLen(s.dC_dWeight_sum, g.dC_dWeight),
                   LAMBDA i : Add(s.dC_dWeight_sum[i], g.dC_dWeight[i]))]

\* The parameters after the updates of the first m batches of bs, from n.
RECURSIVE AfterBatches(_, _, _, _)
AfterBatches(n, bs, eta, m) ==
    IF m = 0 THEN n
    ELSE LET p == AfterBatches(n, bs, eta, m - 1)
         IN  Updated(p, SumGradients(p, bs[m], Len(bs[m])), eta, bs[m])

\* SGD has stopped on an exception raised inside the example loop.
RaisedInBatch == pc = "raised" /\ b <= Len(batches)

\* C22: when backpropagate raises on an example of batch b, SGD stops with
\* that error (RuntimeError) and takes no further step; the raising step
\* changes neither weights nor biases; and the parameters are then exactly
\* those after the updates of batches 1..b-1 of the epoch, in order, from
\* the parameters SGD started with: every earlier update is kept and nothing
\* of the gradient summed over the examples of batch b before the raise is
\* applied.  (The raise comes in the first epoch, which visits every
\* example.)
C22_RaiseKeepsLastCompletedUpdate ==
    /\ [][(pc = "example" /\ pc' = "raised") =>
             /\ err' = "RuntimeError"
             /\ net' = net
             /\ hist'.updates = hist.updates]_vars
    /\ [][pc = "raised" => FALSE]_vars
    /\ [](RaisedInBatch =>
             /\ err = "RuntimeError"
             /\ j = 0
             /\ hist.updates = b - 1
             /\ net = AfterBatches(InitialNet, batches, args.eta, b - 1))

\* C22 witness: backpropagate raised on the second example of the second
\* batch: the first batch's update is in the parameters, and the gradient
\* of the second batch's first example, already summed, is not.
C22_Witness ==
    /\ RaisedInBatch
    /\ err = "RuntimeError"
    /\ b = 2
    /\ k = 2
    /\ hist.updates = 1
    /\ net # InitialNet
    /\ \E i \in 1..Len(sums.dC_dBias_sum) :
         sums.dC_dBias_sum[i] # zeros(sums.dC_dBias_sum[i].shape)
    /\ net # Updated(net, sums, args.eta, batches[b])

\* How many entries of the list s are the example e.
Count(s, e) == Cardinality({ m \in 1..Len(s) : s[m] = e })

\* The lists s and t hold the same examples, each as many times.
SameExamples(s, t) ==
    /\ Len(s) = Len(t)
    /\ \A m \in 1..Len(s) : Count(s, s[m]) = Count(t, s[m])

\* C23: during and after an SGD call the caller's training list holds the
\* examples it was passed, each as many times, possibly in another order;
\* only the shuffle at the start of an epoch reorders it, once per epoch;
\* with epochs = 0 its order at return is the order passed; and the
\* evaluation set is the one passed, in its order, throughout.
C23_ShuffleKeepsExamples ==
    /\ [](InSGD => SameExamples(training_data, args.training_data))
    /\ [][(InSGD /\ training_data' # training_data) =>
             /\ pc = "epoch"
             /\ pc' = "batch"
             /\ j < args.epochs
             /\ j' = j]_vars
    /\ []((pc = "done" /\ args.epochs = 0) =>
             training_data = args.training_data)
    /\ [][InSGD => /\ args'.test_data = args.test_data
                   /\ args'.training_data = args.training_data]_vars

\* C23 witness: SGD has returned after two epochs over three examples with
\* an evaluation set of two: the caller's list is in another order than
\* passed and holds the same examples.
C23_Witness ==
    /\ pc = "done"
    /\ args.epochs = 2
    /\ Len(out) = 2
    /\ Len(args.training_data) = 3
    /\ training_data # args.training_data
    /\ SameExamples(training_data, args.training_data)
    /\ args.test_data = List(<<TestEx(1), TestEx(2)>>)

====
